---- MODULE Spec2Model ----
(***************************************************************************)
(* SkillRack profile lookup service (src/app.py): the /api/profile handler *)
(* fetch_profile with its store (Supabase table skillrack_profiles) and    *)
(* fetch (skillrack.com) collaborators, and the extraction functions it    *)
(* calls.                                                                  *)
(*                                                                         *)
(* Text is modelled as a sequence of tokens: a URL has the sequence of    *)
(* its pieces (Tokens), a line of page text is a sequence of words.  A     *)
(* regular expression is a sequence of token classes searched for in the   *)
(* token sequence.                                                         *)
(***************************************************************************)
EXTENDS Integers, Sequences, FiniteSets, TLC

VARIABLES
    now,           \* the wall clock, in seconds (datetime.now())
    seed,          \* the str-hash salt of the running Python process
    store,         \* rows of the table skillrack_profiles
    started,       \* number of requests received so far
    pc,            \* per worker: position in fetch_profile
    url,           \* per worker: local `url` (stripped)
    existing,      \* per worker: existing_data[0] of the lookup, or NoRow
    gate,          \* per worker: outcome of the freshness test
    request,       \* per worker: the JSON body of the request being handled
    html_content,  \* per worker: local `html_content`
    profile_data,  \* per worker: local `profile_data`, or NoRow
    calls,         \* per worker: collaborator calls made by the request
    response       \* per worker: the HTTP response, or NoResponse

vars == <<now, seed, store, started, pc, url, existing, gate, request,
          html_content, profile_data, calls, response>>

-----------------------------------------------------------------------------
(* Bounds *)

Procs == {"w1", "w2"}

\* a request is given to the first free worker
Earlier(p) == IF p = "w2" THEN {"w1"} ELSE {}

MaxRequests == 2

MaxTicks == 2

MaxSeed == 1

-----------------------------------------------------------------------------
(* Program constants *)

TTL == 3600

MinLines == 20

\* the instants at which the clock is observed: one second before each
\* multiple of the time-to-live, and the multiple itself
Instant(k) == ((k + 1) \div 2) * TTL - (k % 2)

-----------------------------------------------------------------------------
(* Text helpers *)

\* str.lower() on one token
Lower(tok) ==
    CASE tok = "SkillRack.com" -> "skillrack.com"
      [] tok = "Daily Challenge" -> "daily challenge"
      [] tok = "DT Solved" -> "dt solved"
      [] tok = "Name:" -> "name:"
      [] OTHER -> tok

\* str.strip() on a token sequence: leading and trailing whitespace removed
RECURSIVE StripTokens(_)
StripTokens(s) ==
    IF s = <<>> THEN <<>>
    ELSE IF Head(s) = " " THEN StripTokens(Tail(s))
    ELSE IF s[Len(s)] = " " THEN StripTokens(SubSeq(s, 1, Len(s) - 1))
    ELSE s

\* the URLs of the model, and the tokens of each
UrlNew == "https://www.skillrack.com/profile/500444/c3456f"

UrlNewCaps == "https://www.SkillRack.com/profile/500444/c3456f"

UrlOld == "https://www.skillrack.com/faces/candidate/profile.xhtml?id=500444"

UrlOther == "https://example.com/profile/500444"

UrlPadded == " https://www.skillrack.com/profile/500444/c3456f "

Urls == {"", " ", UrlNew, UrlNewCaps, UrlOld, UrlOther, UrlPadded}

Tokens ==
    [u \in Urls |->
        CASE u = "" -> <<>>
          [] u = " " -> <<" ">>
          [] u = UrlNew ->
               <<"https://", "www.", "skillrack.com", "/profile/", "500444", "/", "c3456f">>
          [] u = UrlNewCaps ->
               <<"https://", "www.", "SkillRack.com", "/profile/", "500444", "/", "c3456f">>
          [] u = UrlOld ->
               <<"https://", "www.", "skillrack.com", "/faces/candidate/profile.xhtml",
                 "?id=", "500444">>
          [] u = UrlOther -> <<"https://", "example.com", "/profile/", "500444">>
          [] u = UrlPadded ->
               <<" ", "https://", "www.", "skillrack.com", "/profile/", "500444", "/",
                 "c3456f", " ">>]

\* url.strip()
strip(u) == CHOOSE v \in Urls : Tokens[v] = StripTokens(Tokens[u])

\* tokens matched by \d+
Digits == {"500444", "777"}

\* tokens matched by [a-f0-9]+
Hex == Digits \cup {"c3456f"}

\* the regular expression `pat` matches `s` at offset i
MatchAt(s, i, pat, ignorecase) ==
    /\ i + Len(pat) - 1 <= Len(s)
    /\ \A k \in 1..Len(pat) :
         (IF ignorecase THEN Lower(s[i + k - 1]) ELSE s[i + k - 1]) \in pat[k]

\* re.search(pat, s) is not None
Search(s, pat, ignorecase) ==
    \E i \in 1..Len(s) : MatchAt(s, i, pat, ignorecase)

\* offset of the leftmost match of re.search(pat, s)
FirstMatch(s, pat, ignorecase) ==
    CHOOSE i \in 1..Len(s) :
        /\ MatchAt(s, i, pat, ignorecase)
        /\ \A j \in 1..(i - 1) : ~MatchAt(s, j, pat, ignorecase)

Scheme == {"http://", "https://"}

\* r'https?://(www\.)?skillrack\.com/profile/\d+/[a-f0-9]+', with and without www.
NewFormatPatterns ==
    { <<Scheme, {"www."}, {"skillrack.com"}, {"/profile/"}, Digits, {"/"}, Hex>>,
      <<Scheme, {"skillrack.com"}, {"/profile/"}, Digits, {"/"}, Hex>> }

\* r'https?://(www\.)?skillrack\.com/faces/candidate/profile\.xhtml\?id=\d+'
OldFormatPatterns ==
    { <<Scheme, {"www."}, {"skillrack.com"}, {"/faces/candidate/profile.xhtml"},
        {"?id="}, Digits>>,
      <<Scheme, {"skillrack.com"}, {"/faces/candidate/profile.xhtml"},
        {"?id="}, Digits>> }

\* variant: the shape test accepts every non-empty URL
is_valid_skillrack_url_any(u) == u # ""

is_valid_skillrack_url(u) ==
    \E pat \in NewFormatPatterns \cup OldFormatPatterns : Search(Tokens[u], pat, TRUE)

\* r'skillrack\.com/profile/(\d+)'
NewIdPattern == <<{"skillrack.com"}, {"/profile/"}, Digits>>

\* r'[?&]id=(\d+)'
OldIdPattern == <<{"?id=", "&id="}, Digits>>

\* str(hash(url)): the hash of a str is salted per process
HashId(u, s) == [src |-> "hash", text |-> "", salt |-> s, of |-> u]

ParsedId(digits) == [src |-> "url", text |-> digits, salt |-> 0, of |-> ""]

extract_profile_id(u, s) ==
    LET t == Tokens[u]
    IN IF Search(t, NewIdPattern, FALSE)
       THEN ParsedId(t[FirstMatch(t, NewIdPattern, FALSE) + 2])
       ELSE IF Search(t, OldIdPattern, FALSE)
       THEN ParsedId(t[FirstMatch(t, OldIdPattern, FALSE) + 1])
       ELSE HashId(u, s)

-----------------------------------------------------------------------------
(* Page text *)

\* html_content: None, or the text of a response, given by the name of the page
None == [none |-> TRUE, text |-> ""]

Html(text) == [none |-> FALSE, text |-> text]

\* `not html_content`: None or the empty string
IsFalsy(html) == html.none \/ html.text = ""

\* fetch_page: the body of a 200 response, None for any other status or a
\* transport exception
fetch_page(resp) ==
    IF resp.kind = "response" /\ resp.status_code = 200
    THEN Html(resp.text)
    ELSE None

Div(text) == [tag |-> "div", text |-> text]

Pad(n) == [i \in 1..n |-> Div(<<"abc">>)]

PageA ==
    Pad(MinLines - 4) \o
    << Div(<<"Name:">>), Div(<<"Alice">>), Div(<<"college:">>), Div(<<"MIT">>),
       Div(<<"Daily Challenge">>), Div(<<"5">>), Div(<<"daily test", "2">>),
       Div(<<"problems solved">>), Div(<<"12pts">>) >>

PageB ==
    Pad(MinLines - 4) \o
    << Div(<<"Name:">>), Div(<<"Alice">>), Div(<<"college:">>), Div(<<"MIT">>),
       Div(<<"Daily Challenge", "5">>), Div(<<"dc solved", "7">>),
       [tag |-> "script", text |-> <<"daily test", "7">>],
       Div(<<"DT Solved">>), Div(<<" ", "2", " ">>), Div(<<" ">>),
       Div(<<"problems solved", "12pts">>), Div(<<"code track">>) >>

PageShort ==
    Pad(MinLines - 1) \o << [tag |-> "script", text |-> <<"abc">>], Div(<<" ">>) >>

\* the pages skillrack.com can answer with, by name; "" is the empty body
PageNames == {"A", "B", "Short"}

PageText == [n \in PageNames |-> CASE n = "A" -> PageA [] n = "B" -> PageB [] OTHER -> PageShort]

DroppedTags == {"script", "style", "nav", "header", "footer", "meta", "link"}

\* clean_html: the text of the kept elements, one line each, stripped,
\* empty lines dropped
RECURSIVE CleanElements(_)
CleanElements(elements) ==
    IF elements = <<>> THEN <<>>
    ELSE LET e == Head(elements)
             rest == CleanElements(Tail(elements))
         IN IF e.tag \in DroppedTags \/ StripTokens(e.text) = <<>>
            THEN rest
            ELSE <<StripTokens(e.text)>> \o rest

\* the lines of each page
CleanedPages == [n \in PageNames |-> CleanElements(PageText[n])]

clean_html(html) ==
    IF IsFalsy(html) THEN <<>> ELSE CleanedPages[html.text]

\* the decimal digits of one token, in order
DigitsIn(tok) ==
    CASE tok = "0" -> <<0>>
      [] tok = "2" -> <<2>>
      [] tok = "5" -> <<5>>
      [] tok = "7" -> <<7>>
      [] tok = "12pts" -> <<1, 2>>
      [] OTHER -> <<>>

\* re.sub(r'[^\d]', '', str(value))
RECURSIVE Cleaned(_)
Cleaned(line) ==
    IF line = <<>> THEN <<>> ELSE DigitsIn(Head(line)) \o Cleaned(Tail(line))

RECURSIVE Decimal(_)
Decimal(ds) ==
    IF ds = <<>> THEN 0
    ELSE 10 * Decimal(SubSeq(ds, 1, Len(ds) - 1)) + ds[Len(ds)]

\* to_int on a line of text: int(cleaned) if cleaned else 0
to_int(line) == Decimal(Cleaned(line))

\* `pattern in line.lower()`
Contains(line, pattern) == \E k \in 1..Len(line) : Lower(line[k]) = pattern

ContainsAny(line, patterns) == \E q \in patterns : Contains(line, q)

ZeroText == <<"0">>

\* find_pattern_in_lines: patterns in order, lines in order; the line after
\* the first matching line, or that line itself when it is the last one
RECURSIVE find_pattern_in_lines(_, _)
find_pattern_in_lines(ls, patterns) ==
    IF patterns = <<>> THEN ZeroText
    ELSE IF \E i \in 1..Len(ls) : Contains(ls[i], Head(patterns))
    THEN LET m == CHOOSE n \in 1..Len(ls) :
                     /\ Contains(ls[n], Head(patterns))
                     /\ \A j \in 1..(n - 1) : ~Contains(ls[j], Head(patterns))
         IN IF m + 1 <= Len(ls) THEN ls[m + 1] ELSE ls[m]
    ELSE find_pattern_in_lines(ls, Tail(patterns))

DcLabels == {"daily challenge", "dc solved"}

DtLabels == {"daily test", "dt solved"}

TrackLabels == {"problems solved", "total solved", "code track"}

\* the value a matching line gives: its own digits, else the next line's
LineValue(ls, i) ==
    IF to_int(ls[i]) = 0 /\ i + 1 <= Len(ls)
    THEN to_int(ls[i + 1])
    ELSE to_int(ls[i])

\* one iteration of the scan loop of extract_data
ScanLine(ls, i, acc) ==
    IF ContainsAny(ls[i], DcLabels) THEN [acc EXCEPT !.dc = LineValue(ls, i)]
    ELSE IF ContainsAny(ls[i], DtLabels) THEN [acc EXCEPT !.dt = LineValue(ls, i)]
    ELSE IF ContainsAny(ls[i], TrackLabels)
    THEN [acc EXCEPT !.code_track = LineValue(ls, i)]
    ELSE acc

RECURSIVE ScanFrom(_, _, _)
ScanFrom(ls, i, acc) ==
    IF i > Len(ls) THEN acc ELSE ScanFrom(ls, i + 1, ScanLine(ls, i, acc))

\* the line lists clean_html gives in the model
PageLines == {CleanedPages[n] : n \in PageNames} \cup {<<>>}

\* the scan loop of extract_data, from dc = dt = code_track = 0, on each of them
Scanned == [ls \in PageLines |-> ScanFrom(ls, 1, [dc |-> 0, dt |-> 0, code_track |-> 0])]

Scan(ls) == Scanned[ls]

NamePatterns == <<"name:", "candidate name:", "profile of">>

CollegePatterns == <<"college:", "institution:", "university:">>

\* the name and the college found on each of them
Found ==
    [ls \in PageLines |->
        [name |-> find_pattern_in_lines(ls, NamePatterns),
         college |-> find_pattern_in_lines(ls, CollegePatterns)]]

\* variant: the daily-test weight dropped to that of the other counts
Points_flat(code_track, dc, dt) == (code_track + dc) * 2 + dt * 2

\* points = (code_track + dc) * 2 + dt * 20
Points(code_track, dc, dt) == (code_track + dc) * 2 + dt * 20

UnknownText == <<"Unknown">>

\* datetime.now().isoformat(): local time without a timezone marker
IsoNow(t) == [form |-> "naive", t |-> t]

extract_data(u, ls, t, s) ==
    LET name == Found[ls].name
        college == Found[ls].college
        c == Scan(ls)
    IN [id |-> extract_profile_id(u, s),
        name |-> IF name # ZeroText THEN name ELSE UnknownText,
        college |-> IF college # ZeroText THEN college ELSE UnknownText,
        dc |-> c.dc,
        dt |-> c.dt,
        points |-> Points(c.code_track, c.dc, c.dt),
        last_fetched |-> IsoNow(t),
        profile_url |-> u]

-----------------------------------------------------------------------------
(* Inputs *)

SkillRackUrls == {UrlPadded, UrlNewCaps, UrlOld}

EmptyUrls == {"", " "}

RequestUrls == SkillRackUrls \cup EmptyUrls \cup {UrlOther}

NoBody == [has_data |-> FALSE, url |-> ""]

\* request.get_json(): nothing (or {}), or an object with a url
RequestBodies ==
    {NoBody}
        \cup {[has_data |-> TRUE, url |-> u] : u \in RequestUrls}

\* what requests.get gives fetch_page: a transport exception or a response
FetchResponses ==
    {[kind |-> "exception", status_code |-> 0, text |-> ""],
     [kind |-> "response", status_code |-> 404, text |-> "A"],
     [kind |-> "response", status_code |-> 200, text |-> ""]}
        \cup {[kind |-> "response", status_code |-> 200, text |-> n] : n \in PageNames}

\* the representations in which the store gives back the timestamp of a row:
\* as written (no timezone marker), with a UTC offset, with a Z suffix, or one
\* that datetime.fromisoformat rejects
StoredForms == {"naive", "offset", "Z", "bad"}

-----------------------------------------------------------------------------
(* Responses and per-request state *)

NoRow == [none |-> TRUE]

NoResponse == [status |-> 0, error |-> "", body |-> NoRow]

\* jsonify({'error': msg}), status
Error(status, msg) == [status |-> status, error |-> msg, body |-> NoRow]

\* jsonify(row)
Ok(row) == [status |-> 200, error |-> "", body |-> row]

NoCalls ==
    [lookups |-> 0, fetches |-> 0, writes |-> 0,
     lookup_failed |-> FALSE, no_content |-> FALSE, upsert_failed |-> FALSE]

-----------------------------------------------------------------------------
(* fetch_profile *)

\* lines 62-79: the checks made before any collaborator is called; the error
\* response, or NoResponse when the request goes on to the store lookup
Validation(body) ==
    IF ~body.has_data THEN Error(400, "No data received")
    ELSE IF strip(body.url) = "" THEN Error(400, "URL is required")
    ELSE IF ~is_valid_skillrack_url(strip(body.url))
    THEN Error(400, "Invalid SkillRack URL format. Please use a valid SkillRack profile URL.")
    ELSE NoResponse

\* lines 91-98: the freshness test on the stored last_fetched.
\* fromisoformat raises ValueError on text it cannot parse; subtracting a
\* datetime without timezone from datetime.now().astimezone() raises TypeError.
cache_gate(last_fetched, t) ==
    CASE last_fetched.form = "bad" -> "ValueError"
      [] last_fetched.form = "naive" -> "TypeError"
      [] OTHER -> IF t - last_fetched.t < TTL THEN "FRESH" ELSE "STALE"

\* a row as the store gives it back, its timestamp in the given representation
Rendered(row, form) ==
    [row EXCEPT !.last_fetched = [form |-> form, t |-> row.last_fetched.t]]

\* supabase_request('GET', ...): None when the request fails, else the rows
\* with that profile_url; `first` is existing_data[0]
LookupResults(u) ==
    LET rows == {r \in store : r.profile_url = u}
    IN {[failed |-> TRUE, first |-> NoRow]}
           \cup (IF rows = {}
                 THEN {[failed |-> FALSE, first |-> NoRow]}
                 ELSE {[failed |-> FALSE, first |-> Rendered(r, form)] :
                          r \in rows, form \in StoredForms})

\* variant: a failed lookup is reported to the caller
GateOutcome_surfacing(res, t) ==
    IF res.failed
    THEN [pc |-> "done", gate |-> "FAULT",
          response |-> Error(500, "Internal server error")]
    ELSE IF res.first = NoRow
    THEN [pc |-> "fetch", gate |-> "STALE_OR_MISSING", response |-> NoResponse]
    ELSE LET g == cache_gate(res.first.last_fetched, t)
         IN CASE g = "FRESH" ->
                   [pc |-> "done", gate |-> "FRESH", response |-> Ok(res.first)]
              [] g = "STALE" ->
                   [pc |-> "fetch", gate |-> "STALE_OR_MISSING", response |-> NoResponse]
              [] OTHER ->
                   [pc |-> "done", gate |-> "FAULT",
                    response |-> Error(500, "Internal server error")]

\* lines 89-100 and 143-145: what the handler does with the lookup result
GateOutcome(res, t) ==
    IF res.first = NoRow
    THEN [pc |-> "fetch", gate |-> "STALE_OR_MISSING", response |-> NoResponse]
    ELSE LET g == cache_gate(res.first.last_fetched, t)
         IN CASE g = "FRESH" ->
                   [pc |-> "done", gate |-> "FRESH", response |-> Ok(res.first)]
              [] g = "STALE" ->
                   [pc |-> "fetch", gate |-> "STALE_OR_MISSING", response |-> NoResponse]
              [] OTHER ->
                   [pc |-> "done", gate |-> "FAULT",
                    response |-> Error(500, "Internal server error")]

\* variant: no test of the fetched content; extraction runs on whatever
\* clean_html gives
FetchOutcome_degraded(u, html, t, s) ==
    [pc |-> "upsert",
     profile_data |-> extract_data(u, clean_html(html), t, s),
     response |-> NoResponse]

\* lines 104-121: what the handler does with the fetched page
FetchOutcome(u, html, t, s) ==
    IF IsFalsy(html)
    THEN [pc |-> "done", profile_data |-> NoRow,
          response |-> Error(400, "Failed to fetch profile data from SkillRack. Please check if the profile exists and is public.")]
    ELSE LET ls == clean_html(html)
         IN IF Len(ls) < MinLines
            THEN [pc |-> "done", profile_data |-> NoRow,
                  response |-> Error(400, "Incomplete profile data received. The profile might be private or the URL is incorrect.")]
            ELSE [pc |-> "upsert",
                  profile_data |-> extract_data(u, ls, t, s),
                  response |-> NoResponse]

\* lines 124-133
upsert_data(d) ==
    [id |-> d.id, name |-> d.name, college |-> d.college, points |-> d.points,
     last_fetched |-> d.last_fetched, dc |-> d.dc, dt |-> d.dt,
     profile_url |-> d.profile_url]

\* the store's upsert with on_conflict=id: the row with that id is replaced
StoreUpsert(rows, row) == {r \in rows : r.id # row.id} \cup {row}

-----------------------------------------------------------------------------
(* The server: two request workers, the clock, the table *)

Init ==
    /\ now = 0
    /\ seed = 0
    /\ store = {}
    /\ started = 0
    /\ pc = [p \in Procs |-> "idle"]
    /\ url = [p \in Procs |-> ""]
    /\ existing = [p \in Procs |-> NoRow]
    /\ gate = [p \in Procs |-> "none"]
    /\ request = [p \in Procs |-> NoBody]
    /\ html_content = [p \in Procs |-> None]
    /\ profile_data = [p \in Procs |-> NoRow]
    /\ calls = [p \in Procs |-> NoCalls]
    /\ response = [p \in Procs |-> NoResponse]

\* a worker receives a request and validates it (lines 61-79)
Receive(p, body) ==
    /\ pc[p] \in {"idle", "done"}
    /\ \A q \in Earlier(p) : pc[q] \notin {"idle", "done"}
    /\ started < MaxRequests
    /\ started' = started + 1
    /\ request' = [request EXCEPT ![p] = body]
    /\ url' = [url EXCEPT ![p] = strip(body.url)]
    /\ response' = [response EXCEPT ![p] = Validation(body)]
    /\ pc' = [pc EXCEPT ![p] = IF Validation(body) = NoResponse THEN "lookup" ELSE "done"]
    /\ existing' = [existing EXCEPT ![p] = NoRow]
    /\ gate' = [gate EXCEPT ![p] = "none"]
    /\ html_content' = [html_content EXCEPT ![p] = None]
    /\ profile_data' = [profile_data EXCEPT ![p] = NoRow]
    /\ calls' = [calls EXCEPT ![p] = NoCalls]
    /\ UNCHANGED <<now, seed, store>>

\* the store lookup and the freshness gate (lines 83-100)
Lookup(p, res) ==
    /\ pc[p] = "lookup"
    /\ res \in LookupResults(url[p])
    /\ LET out == GateOutcome(res, now)
       IN /\ pc' = [pc EXCEPT ![p] = out.pc]
          /\ gate' = [gate EXCEPT ![p] = out.gate]
          /\ response' = [response EXCEPT ![p] = out.response]
    /\ existing' = [existing EXCEPT ![p] = res.first]
    /\ calls' = [calls EXCEPT ![p].lookups = @ + 1, ![p].lookup_failed = res.failed]
    /\ UNCHANGED <<now, seed, store, started, url, request, html_content, profile_data>>

\* the page fetch, normalisation and extraction (lines 104-121)
Fetch(p, resp) ==
    /\ pc[p] = "fetch"
    /\ LET out == FetchOutcome(url[p], fetch_page(resp), now, seed)
       IN /\ pc' = [pc EXCEPT ![p] = out.pc]
          /\ html_content' = [html_content EXCEPT ![p] = fetch_page(resp)]
          /\ profile_data' = [profile_data EXCEPT ![p] = out.profile_data]
          /\ response' = [response EXCEPT ![p] = out.response]
    /\ calls' = [calls EXCEPT ![p].fetches = @ + 1,
                              ![p].no_content = IsFalsy(fetch_page(resp))]
    /\ UNCHANGED <<now, seed, store, started, url, existing, gate, request>>

\* the store upsert and the success response (lines 124-141); the result of
\* supabase_request is not looked at
Upsert(p, ok) ==
    /\ pc[p] = "upsert"
    /\ store' = IF ok THEN StoreUpsert(store, upsert_data(profile_data[p]))
                ELSE store
    /\ calls' = [calls EXCEPT ![p].writes = @ + 1, ![p].upsert_failed = ~ok]
    /\ response' = [response EXCEPT ![p] = Ok(profile_data[p])]
    /\ pc' = [pc EXCEPT ![p] = "done"]
    /\ UNCHANGED <<now, seed, started, url, existing, gate, request, html_content, profile_data>>

\* time passes, to the next instant
Tick ==
    /\ \E k \in 0..(MaxTicks - 1) : now = Instant(k) /\ now' = Instant(k + 1)
    /\ UNCHANGED <<seed, store, started, pc, url, existing, gate, request,
                   html_content, profile_data, calls, response>>

\* the server process is restarted (line 290): requests in flight are lost,
\* the table stays, and the new process has its own str-hash salt
Restart(s) ==
    /\ seed' = s
    /\ pc' = [p \in Procs |-> "idle"]
    /\ url' = [p \in Procs |-> ""]
    /\ existing' = [p \in Procs |-> NoRow]
    /\ gate' = [p \in Procs |-> "none"]
    /\ request' = [p \in Procs |-> NoBody]
    /\ html_content' = [p \in Procs |-> None]
    /\ profile_data' = [p \in Procs |-> NoRow]
    /\ calls' = [p \in Procs |-> NoCalls]
    /\ response' = [p \in Procs |-> NoResponse]
    /\ UNCHANGED <<now, store, started>>

Serve ==
    \/ \E p \in Procs, body \in RequestBodies : Receive(p, body)
    \/ \E p \in Procs : \E res \in LookupResults(url[p]) : Lookup(p, res)
    \/ \E p \in Procs, resp \in FetchResponses : Fetch(p, resp)
    \/ \E p \in Procs, ok \in BOOLEAN : Upsert(p, ok)
    \/ Tick

\* one lifetime of the server process
Next == Serve

Spec == Init /\ [][Next]_vars

\* the server process over restarts, the table persisting
NextRestarts ==
    \/ Serve
    \/ \E s \in 0..MaxSeed : Restart(s)

SpecRestarts == Init /\ [][NextRestarts]_vars

-----------------------------------------------------------------------------
(* Properties *)

\* the value the first line matching one of `labels` gives, 0 when none does
FirstValue(ls, labels) ==
    IF \E i \in 1..Len(ls) : ContainsAny(ls[i], labels)
    THEN LineValue(ls, CHOOSE i \in 1..Len(ls) :
                           /\ ContainsAny(ls[i], labels)
                           /\ \A j \in 1..(i - 1) : ~ContainsAny(ls[j], labels))
    ELSE 0

\* local `lines` of worker p
lines(p) == clean_html(html_content[p])

\* the lookup step of worker p
LookupStep(p) == pc[p] = "lookup" /\ calls'[p].lookups = calls[p].lookups + 1

\* the fetch step of worker p
FetchStep(p) == pc[p] = "fetch" /\ calls'[p].fetches = calls[p].fetches + 1

\* C1: freshness gate.  A lookup that finds a record (with a timestamp that
\* denotes an instant) less than 3600 seconds old ends the request with that
\* record, verbatim, without fetch or store write; a lookup that finds no
\* record or one 3600 seconds old or older sends the request on to the fetch.
C1_FreshnessGate ==
    [][\A p \in Procs :
        (LookupStep(p) /\ (existing'[p] = NoRow \/ existing'[p].last_fetched.form # "bad")) =>
            IF existing'[p] # NoRow /\ now - existing'[p].last_fetched.t < TTL
            THEN /\ gate'[p] = "FRESH"
                 /\ pc'[p] = "done"
                 /\ response'[p] = Ok(existing'[p])
                 /\ calls'[p].fetches = 0
                 /\ calls'[p].writes = 0
                 /\ store' = store
            ELSE /\ gate'[p] = "STALE_OR_MISSING"
                 /\ pc'[p] = "fetch"]_vars

\* C2: defensive timestamp handling.  Whatever the form of the stored
\* last_fetched (UTC marker, no timezone marker, unparsable), the gate decides
\* FRESH or STALE_OR_MISSING; an unparsable one gives STALE_OR_MISSING; the
\* request never ends with the internal-fault error.
C2_DefensiveTimestamps ==
    \A p \in Procs :
        (calls[p].lookups > 0 /\ existing[p] # NoRow) =>
            /\ gate[p] \in {"FRESH", "STALE_OR_MISSING"}
            /\ (existing[p].last_fetched.form = "bad" => gate[p] = "STALE_OR_MISSING")
            /\ response[p].status # 500

\* C3: fetch failure.  When the fetch gives no content, that step ends the
\* request with an error response carrying a message and no record; the
\* request has made one fetch and no store write, and the store is as it was.
C3_FetchFailure ==
    [][\A p \in Procs :
        (FetchStep(p) /\ calls'[p].no_content) =>
            /\ gate[p] = "STALE_OR_MISSING"
            /\ pc'[p] = "done"
            /\ response'[p].status = 400
            /\ response'[p].error # ""
            /\ response'[p].body = NoRow
            /\ profile_data'[p] = NoRow
            /\ calls'[p].fetches = 1
            /\ calls'[p].writes = 0
            /\ store' = store]_vars

C3_Witness ==
    \E p \in Procs :
        /\ pc[p] = "done"
        /\ calls[p].no_content
        /\ store # {}

\* C4: store failures are not surfaced.  After a failed lookup the request is
\* where a request that found nothing is (on its way to the fetch, or past
\* it); after a failed upsert the response is the success response with the
\* extracted record; an error response of a request with a store failure
\* comes from its fetch.
C4_StoreFailuresAbsorbed ==
    \A p \in Procs :
        /\ calls[p].lookup_failed =>
               /\ gate[p] = "STALE_OR_MISSING"
               /\ existing[p] = NoRow
               /\ pc[p] = "fetch" \/ calls[p].fetches = 1
        /\ calls[p].upsert_failed =>
               /\ pc[p] = "done"
               /\ profile_data[p] # NoRow
               /\ response[p] = Ok(profile_data[p])
        /\ ((calls[p].lookup_failed \/ calls[p].upsert_failed) /\ response[p].status >= 400) =>
               /\ response[p].status = 400
               /\ calls[p].fetches = 1
               /\ calls[p].writes = 0

C4_Witness ==
    \E p \in Procs :
        /\ calls[p].lookup_failed
        /\ calls[p].upsert_failed
        /\ response[p].status = 200
        /\ \E r \in store : r.profile_url = url[p]

\* C5: failure propagation.  A finished request has an error response only
\* when its input was rejected or its fetch gave no content; a request with a
\* valid URL whose fetch gave content ends in success with a record, filled
\* with defaults when the page has fewer lines than the minimum.
C5_FailurePropagation ==
    \A p \in Procs :
        pc[p] = "done" =>
            /\ response[p].status # 200 =>
                   (Validation(request[p]) # NoResponse \/ calls[p].no_content)
            /\ (calls[p].fetches = 1 /\ ~calls[p].no_content) =>
                   /\ response[p].status = 200
                   /\ response[p].body # NoRow
                   /\ Len(lines(p)) < MinLines =>
                          /\ response[p].body.name = UnknownText
                          /\ response[p].body.college = UnknownText
                          /\ response[p].body.points = 0

\* C6: input validation has no side effects.  A request with an empty or
\* whitespace-only URL is answered "URL is required", one with a URL that is
\* not of a SkillRack profile shape is answered with the invalid-format error;
\* neither makes a store lookup, a fetch or a store write.
C6_ValidationNoSideEffects ==
    \A p \in Procs :
        /\ (request[p].has_data /\ request[p].url \in EmptyUrls) =>
               /\ pc[p] = "done"
               /\ response[p] = Error(400, "URL is required")
               /\ calls[p] = NoCalls
        /\ (request[p].has_data /\ request[p].url = UrlOther) =>
               /\ pc[p] = "done"
               /\ response[p] = Error(400, "Invalid SkillRack URL format. Please use a valid SkillRack profile URL.")
               /\ calls[p] = NoCalls

C6_Witness ==
    \E p \in Procs :
        /\ request[p].has_data
        /\ request[p].url = UrlOther
        /\ response[p].status = 400
        /\ store # {}

\* C7: first match wins.  The dc and dt of an extracted record are the values
\* given by the first line matching the field's labels, and its points are
\* those of the first-match values of the three counts.
C7_FirstMatchWins ==
    \A p \in Procs :
        profile_data[p] # NoRow =>
            /\ profile_data[p].dc = FirstValue(lines(p), DcLabels)
            /\ profile_data[p].dt = FirstValue(lines(p), DtLabels)
            /\ profile_data[p].points =
                   Points(FirstValue(lines(p), TrackLabels),
                          FirstValue(lines(p), DcLabels),
                          FirstValue(lines(p), DtLabels))

\* the counts of the pages that can be fetched
PageCounts == {Scan(ls) : ls \in PageLines}

\* C8: score formula.  Every extracted record, the record in the success
\* response of a re-extraction and every stored row has
\* points = (track + dc) * 2 + dt * 20 for the counts of the page it was
\* extracted from, whatever the points of the row found by the lookup.
C8_ScoreFormula ==
    /\ \A p \in Procs :
           profile_data[p] # NoRow =>
               /\ profile_data[p].points =
                      (Scan(lines(p)).code_track + profile_data[p].dc) * 2
                          + profile_data[p].dt * 20
               /\ profile_data[p].dc >= 0 /\ profile_data[p].dt >= 0
               /\ pc[p] = "done" => response[p].body.points = profile_data[p].points
    /\ \A r \in store :
           \E c \in PageCounts :
               /\ r.dc = c.dc
               /\ r.dt = c.dt
               /\ r.points = (c.code_track + r.dc) * 2 + r.dt * 20

C8_Witness ==
    \E p \in Procs :
        /\ pc[p] = "done"
        /\ profile_data[p] # NoRow
        /\ existing[p] # NoRow
        /\ existing[p].points # profile_data[p].points
        /\ \E r \in store : r.profile_url = url[p] /\ r.points = profile_data[p].points

\* C9: store uniqueness.  The store holds at most one row per id and at most
\* one row per profile_url.
C9_StoreUniqueness ==
    \A r1, r2 \in store :
        (r1.id = r2.id \/ r1.profile_url = r2.profile_url) => r1 = r2

\* C10: cache round trip.  A request that finds the row of an earlier
\* re-extraction, stored with the last_fetched as extract_data wrote it and
\* less than one hour old, is FRESH and is answered with success without a
\* fetch.
C10_CacheRoundTrip ==
    \A p \in Procs :
        (/\ calls[p].lookups > 0
         /\ existing[p] # NoRow
         /\ existing[p].last_fetched = IsoNow(existing[p].last_fetched.t)
         /\ now - existing[p].last_fetched.t < TTL) =>
            /\ gate[p] = "FRESH"
            /\ response[p].status = 200
            /\ calls[p].fetches = 0

====
